---------------------------- MODULE Spec2Model ----------------------------
(***************************************************************************)
(* A model of src/src/output/mod.rs of cs2-dumper: the Results snapshot,   *)
(* Results::dump_all and the files it writes, the build-number lookup of   *)
(* info.json, and the naming helpers sanitize_name and format_module_name. *)
(*                                                                         *)
(* Text is modelled as it is produced: a generated file is the sequence of *)
(* its lines, a line is a string, a name handed to a naming helper is the  *)
(* sequence of its characters.                                             *)
(***************************************************************************)
EXTENDS Integers, Sequences, FiniteSets, TLC

VARIABLES
    now,        \* the wall clock Utc::now() reads, in seconds
    results,    \* the Results value (the snapshot), immutable once built
    proc,       \* the target process: per module, how it resolves and reads
    fs,         \* out_dir: file name -> [exists, text]
    fs0,        \* out_dir as it was when the running dump_all was called
    pc,         \* position of dump_all: "idle", "loop" or "info"
    step,       \* index of the next (collection, format) pair of the loop
    indent,     \* indent_size of the running dump_all call
    calls,      \* the dump_all calls the caller still makes, in order
    cur,        \* record of the running (or last finished) dump_all call
    prev,       \* record of the dump_all call before it
    name,       \* input of a naming helper
    os,         \* env::consts::OS of the build
    outs        \* results of the naming-helper calls made so far

dumpVars == <<now, results, proc, fs, fs0, pc, step, indent, calls, cur, prev>>
helperVars == <<name, os, outs>>
vars == <<now, results, proc, fs, fs0, pc, step, indent, calls, cur, prev,
          name, os, outs>>

(***************************************************************************)
(* Bounds of the model.                                                    *)
(***************************************************************************)
MaxNameLen == 4
MaxStemLen == 3
MaxModules == 2
MaxClock == 1

RECURSIVE SeqsUpTo(_, _)
SeqsUpTo(S, n) ==
    IF n = 0 THEN {<<>>}
    ELSE LET shorter == SeqsUpTo(S, n - 1)
         IN  shorter \cup {Append(s, c) : s \in {t \in shorter : Len(t) = n - 1}, c \in S}

(***************************************************************************)
(* sanitize_name                                                           *)
(***************************************************************************)
\* The characters the model draws names from: letters and digits, and
\* characters that are not alphanumeric (the underscore among them).
AlnumChars == {"F", "o", "B", "a", "r", "7"}
OtherChars == {"_", " ", "!"}
NameChars == {"F", "o", "7"} \cup OtherChars

\* char::is_alphanumeric
is_alphanumeric(c) == c \in AlnumChars

\* A faulty variant of sanitize_name: the replacement is the empty string.
sanitize_name_dropping(s) ==
    LET RECURSIVE go(_)
        go(t) == IF t = <<>> THEN <<>>
                 ELSE (IF is_alphanumeric(Head(t)) THEN <<Head(t)>> ELSE <<>>)
                      \o go(Tail(t))
    IN  go(s)

\* name.replace(|c: char| !c.is_alphanumeric(), "_"): str::replace walks the
\* string and substitutes "_" for every match of the pattern, here every
\* single character that is not alphanumeric.
sanitize_name(s) ==
    LET RECURSIVE go(_)
        go(t) == IF t = <<>> THEN <<>>
                 ELSE (IF is_alphanumeric(Head(t)) THEN <<Head(t)>> ELSE <<"_">>)
                      \o go(Tail(t))
    IN  go(s)

FooBar == <<"F", "o", "o", " ", "B", "a", "r", "!">>
SanitizeInputs == SeqsUpTo(NameChars, MaxNameLen) \cup {FooBar}

(***************************************************************************)
(* format_module_name                                                      *)
(***************************************************************************)
Platforms == {"linux", "windows", "macos"}
ModuleChars == {"c", ".", "s", "o", "d", "l"}
SoSuffix == <<".", "s", "o">>
DllSuffix == <<".", "d", "l", "l">>

\* Module names: a stem of up to MaxStemLen characters, followed by no
\* suffix, by one, or by two.
NameTails == { <<>>, SoSuffix, DllSuffix, SoSuffix \o SoSuffix, DllSuffix \o DllSuffix,
               SoSuffix \o DllSuffix, DllSuffix \o SoSuffix }
ModuleNameInputs == {stem \o tail : stem \in SeqsUpTo(ModuleChars, MaxStemLen),
                                    tail \in NameTails}

\* str::strip_suffix: Some(the string without the suffix) when the string
\* ends with it, None otherwise.
strip_suffix(s, suffix) ==
    IF Len(s) >= Len(suffix)
       /\ SubSeq(s, Len(s) - Len(suffix) + 1, Len(s)) = suffix
    THEN [some |-> TRUE, val |-> SubSeq(s, 1, Len(s) - Len(suffix))]
    ELSE [some |-> FALSE, val |-> <<>>]

\* A faulty variant of format_module_name: every trailing suffix is removed, as
\* trim_end_matches would, and a name without the suffix is returned as is.
format_module_name_trimming(platform, module_name) ==
    LET ext == IF platform = "linux" THEN SoSuffix ELSE DllSuffix
        RECURSIVE trim(_)
        trim(s) == IF strip_suffix(s, ext).some THEN trim(strip_suffix(s, ext).val)
                   ELSE s
    IN  IF platform \notin {"linux", "windows"}
        THEN [kind |-> "panic: unsupported os", val |-> <<>>]
        ELSE [kind |-> "ok", val |-> trim(module_name)]

\* format_module_name: the match on env::consts::OS, then
\* strip_suffix(file_ext).unwrap().
format_module_name(platform, module_name) ==
    IF platform \notin {"linux", "windows"}
    THEN [kind |-> "panic: unsupported os", val |-> <<>>]
    ELSE LET file_ext == IF platform = "linux" THEN SoSuffix ELSE DllSuffix
             stripped == strip_suffix(module_name, file_ext)
         IN  IF stripped.some
             THEN [kind |-> "ok", val |-> stripped.val]
             ELSE [kind |-> "panic: unwrap on None", val |-> <<>>]

(***************************************************************************)
(* The snapshot: Results and its collections                               *)
(***************************************************************************)
\* The items array and file_exts of dump_all, in declared order.
items == <<"buttons", "interfaces", "offsets", "schemas">>
file_exts == <<"cs", "hpp", "json", "rs">>

NumSteps == Len(items) * Len(file_exts)
ItemOf(s) == items[((s - 1) \div Len(file_exts)) + 1]
ExtOf(s) == file_exts[((s - 1) % Len(file_exts)) + 1]

\* format!("{}.{}", file_name, file_ext), joined to out_dir
FileName(file_name, file_ext) == file_name \o "." \o file_ext

InfoFile == FileName("info", "json")
CollectionFiles == {FileName(items[i], file_exts[j]) :
                        i \in 1..Len(items), j \in 1..Len(file_exts)}
DumpFiles == CollectionFiles \cup {InfoFile}
\* A file of out_dir that is none of dump_all's.
OtherFile == "notes.txt"
Files == DumpFiles \cup {OtherFile}

\* The modules the target process may hold, in the offset map's iteration order.
ModuleNameOf(i) ==
    CASE i = 1 -> "client.dll"
      [] i = 2 -> "engine2.dll"
      [] i = 3 -> "server.dll"
      [] OTHER -> "tier0.dll"
ModuleNames == {ModuleNameOf(i) : i \in 1..MaxModules}

BuildNumberName == "dwBuildNumber"
Offset(n, v) == [name |-> n, value |-> v]
\* The offsets one module may carry: none named dwBuildNumber, one after
\* another offset, two of them.
OffsetLists ==
    { <<Offset("dwViewMatrix", 3)>>,
      <<Offset("dwViewMatrix", 3), Offset(BuildNumberName, 1)>>,
      <<Offset(BuildNumberName, 2), Offset(BuildNumberName, 1)>> }

\* OffsetMap values of up to MaxModules modules, keys unique, in iteration order.
OffsetMaps ==
    UNION { { [i \in 1..n |-> [module |-> ModuleNameOf(i), offsets |-> f[i]]] :
                f \in [1..n -> OffsetLists] } : n \in 0..MaxModules }

Buttons == <<"duck", "jump">>

\* Results::new: the collections as given, the timestamp from Utc::now().
NewResults(clock, buttons, interfaces, offsets, schemas) ==
    [ timestamp |-> clock, buttons |-> buttons, interfaces |-> interfaces,
      offsets |-> offsets, schemas |-> schemas ]

(***************************************************************************)
(* The target process                                                      *)
(***************************************************************************)
\* A module of the process is absent ("notfound": module_by_name fails),
\* present with its memory unreadable ("unmapped": every read fails),
\* present and readable ("mapped"), or present and readable but for the
\* address at offset 2 ("holed").
ModuleStates == {"notfound", "unmapped", "holed", "mapped"}
Processes == [ModuleNames -> ModuleStates]
ExitedProcess == [m \in ModuleNames |-> "notfound"]

\* Module i of the process is loaded at 16 * i; the offsets of the snapshot
\* are smaller than 16, so an address tells its module.
IndexOfModule(m) == CHOOSE i \in 1..MaxModules : ModuleNameOf(i) = m
BaseOf(m) == 16 * IndexOfModule(m)
RegionOf(addr) == addr \div 16

\* process.module_by_name(name)
module_by_name(p, m) ==
    IF m \in DOMAIN p /\ p[m] # "notfound"
    THEN [ok |-> TRUE, base |-> BaseOf(m)]
    ELSE [ok |-> FALSE, base |-> 0]

\* process.read::<u32>(address): the 4 bytes at the address, when its region
\* is a readable module of the process.  Every value the model's memory
\* holds fits 32 bits.
process_read(p, addr) ==
    IF \E m \in DOMAIN p :
          /\ RegionOf(addr) = IndexOfModule(m)
          /\ \/ p[m] = "mapped"
             \/ p[m] = "holed" /\ addr # BaseOf(m) + 2
    THEN [ok |-> TRUE, val |-> 1000 + addr]
    ELSE [ok |-> FALSE, val |-> 0]

(***************************************************************************)
(* Rendering: the banner, write_content, the encoders, Item::generate      *)
(***************************************************************************)
\* chrono's Display of a DateTime<Utc> ("{}" in write_banner).
DisplayUtc(t) == "1970-01-01 00:00:0" \o ToString(t) \o " UTC"

\* DateTime::to_rfc3339
to_rfc3339(t) == "1970-01-01T00:00:0" \o ToString(t) \o "+00:00"

AttributionLine == "// Generated using https://github.com/a2x/cs2-dumper"

\* A faulty variant of write_banner: the blank line after the timestamp is missing
\* ("// {}" instead of "// {}\n").
write_banner_no_blank(res) ==
    << AttributionLine, "// " \o DisplayUtc(res.timestamp) >>

\* A faulty variant of write_banner: the timestamp is the time of rendering,
\* Utc::now(), instead of the snapshot's.
write_banner_now(res) ==
    << AttributionLine, "// " \o DisplayUtc(now), "" >>

\* Results::write_banner: the lines the two writeln! calls put into the
\* formatter; the "\n" inside the second format string ends the timestamp
\* line and writeln! adds the blank one.
write_banner(res) ==
    << AttributionLine, "// " \o DisplayUtc(res.timestamp), "" >>

\* CodeGen::write_content: the banner, then what the callback writes.
write_content(res, indent_size, callback) ==
    write_banner(res) \o callback

RECURSIVE Join(_)
Join(names) ==
    IF names = <<>> THEN ""
    ELSE Head(names) \o (IF Len(names) > 1 THEN "," ELSE "") \o Join(Tail(names))

OffsetText(o) == o.name \o "=" \o ToString(o.value)
ModuleText(m) ==
    m.module \o "{" \o Join([i \in 1..Len(m.offsets) |-> OffsetText(m.offsets[i])]) \o "}"

\* What an encoder reads of the snapshot for one collection.
CollectionText(res, item) ==
    CASE item = "buttons"    -> Join(res.buttons)
      [] item = "interfaces" -> Join(res.interfaces)
      [] item = "offsets"    ->
            Join([i \in 1..Len(res.offsets) |-> ModuleText(res.offsets[i])])
      [] item = "schemas"    -> Join(res.schemas)

\* The domain encoders (mod buttons, interfaces, offsets, schemas): pure
\* functions of (collection, snapshot, indent width).  The source encoders
\* render through write_content, the JSON encoder serialises the collection
\* alone.
SourceBody(res, item, indent_size, lang) ==
    << lang \o " " \o item \o " indent=" \o ToString(indent_size)
            \o " " \o CollectionText(res, item) >>

to_cs(res, item, indent_size) ==
    write_content(res, indent_size, SourceBody(res, item, indent_size, "namespace"))
to_hpp(res, item, indent_size) ==
    write_content(res, indent_size, SourceBody(res, item, indent_size, "#pragma once"))
to_rs(res, item, indent_size) ==
    write_content(res, indent_size, SourceBody(res, item, indent_size, "pub mod"))
to_json(res, item, indent_size) ==
    << "{\"" \o item \o "\": \"" \o CollectionText(res, item)
            \o "\"} indent=" \o ToString(indent_size) >>

\* Item::generate: the match on file_ext.
generate(res, item, indent_size, file_ext) ==
    CASE file_ext = "cs"   -> to_cs(res, item, indent_size)
      [] file_ext = "hpp"  -> to_hpp(res, item, indent_size)
      [] file_ext = "json" -> to_json(res, item, indent_size)
      [] file_ext = "rs"   -> to_rs(res, item, indent_size)

(***************************************************************************)
(* The filesystem: fs::write and dump_file                                 *)
(***************************************************************************)
Absent == [exists |-> FALSE, text |-> <<>>]
FileOf(text) == [exists |-> TRUE, text |-> text]

Prefixes(text) == {SubSeq(text, 1, k) : k \in 0..(Len(text) - 1)}

\* fs::write(path, content) is File::create (create, or truncate what is
\* there) followed by write_all.  It returns Ok with the whole content in
\* the file; it fails in File::create with the file untouched; or it fails in
\* write_all, the file created or truncated and holding a proper prefix of
\* the content.  `written` tells whether fs::write returned Ok.
fs_write(old, content) ==
    { [result |-> "Ok", written |-> TRUE, file |-> FileOf(content)],
      [result |-> "Err(io)", written |-> FALSE, file |-> old] }
    \cup { [result |-> "Err(io)", written |-> FALSE, file |-> FileOf(pre)] :
                pre \in Prefixes(content) }

\* Results::dump_file: fs::write(out_dir/<name>.<ext>, content)?; Ok(()).
\* The outcomes for the file at that path, `old` being what it holds.
dump_file(old, content) == fs_write(old, content)

(***************************************************************************)
(* The build-number lookup and info.json                                   *)
(***************************************************************************)
\* offsets.iter().find(|o| o.name == "dwBuildNumber"): the first offset of
\* that name in the module, if any.
find_offset(offsets) ==
    LET hits == {i \in 1..Len(offsets) : offsets[i].name = BuildNumberName}
    IN  IF hits = {} THEN [some |-> FALSE, value |-> 0]
        ELSE [some |-> TRUE,
              value |-> offsets[CHOOSE i \in hits : \A j \in hits : i <= j].value]

NoLookup == [ok |-> FALSE, val |-> 0, resolves |-> <<>>, reads |-> <<>>]

\* A faulty variant of read_build_number: the first module holding the offset
\* decides, its failure to resolve or to read ends the search
\* (find(..).and_then(..) in place of find_map).
RECURSIVE first_match_only(_, _, _)
first_match_only(offsets, p, i) ==
    IF i > Len(offsets) THEN NoLookup
    ELSE LET m == offsets[i]
             o == find_offset(m.offsets)
             base == module_by_name(p, m.module)
             r == process_read(p, base.base + o.value)
         IN  IF ~o.some THEN first_match_only(offsets, p, i + 1)
             ELSE IF ~base.ok
                  THEN [NoLookup EXCEPT !.resolves = <<m.module>>]
                  ELSE [ok |-> r.ok, val |-> r.val, resolves |-> <<m.module>>,
                        reads |-> <<base.base + o.value>>]

\* A faulty variant of read_build_number: every module holding the offset is
\* resolved and read, and the last value read is returned
\* (filter_map(..).last() in place of find_map).
RECURSIVE last_match(_, _, _)
last_match(offsets, p, i) ==
    IF i > Len(offsets) THEN NoLookup
    ELSE LET m == offsets[i]
             o == find_offset(m.offsets)
             base == module_by_name(p, m.module)
             r == process_read(p, base.base + o.value)
             rest == last_match(offsets, p, i + 1)
             here == IF ~o.some THEN NoLookup
                     ELSE IF ~base.ok THEN [NoLookup EXCEPT !.resolves = <<m.module>>]
                     ELSE [ok |-> r.ok, val |-> r.val, resolves |-> <<m.module>>,
                           reads |-> <<base.base + o.value>>]
         IN  [ok |-> here.ok \/ rest.ok,
              val |-> IF rest.ok THEN rest.val ELSE here.val,
              resolves |-> here.resolves \o rest.resolves,
              reads |-> here.reads \o rest.reads]

\* The find_map of read_build_number from module i on: the closure gives
\* None for a module without the offset, for one that does not resolve
\* (.ok()?) and for one whose read fails (.ok()), and find_map goes on to
\* the next module until a closure call gives Some.  `resolves` and `reads`
\* are the calls made on the process, in order.
RECURSIVE find_map(_, _, _)
find_map(offsets, p, i) ==
    IF i > Len(offsets) THEN NoLookup
    ELSE LET m == offsets[i]
             o == find_offset(m.offsets)
             base == module_by_name(p, m.module)
             r == process_read(p, base.base + o.value)
             rest == find_map(offsets, p, i + 1)
         IN  IF ~o.some THEN rest
             ELSE IF ~base.ok
                  THEN [rest EXCEPT !.resolves = <<m.module>> \o rest.resolves]
                  ELSE IF r.ok
                       THEN [ok |-> TRUE, val |-> r.val, resolves |-> <<m.module>>,
                             reads |-> <<base.base + o.value>>]
                       ELSE [rest EXCEPT !.resolves = <<m.module>> \o rest.resolves,
                                         !.reads = <<base.base + o.value>> \o rest.reads]

read_build_number_first_match(res, p) == first_match_only(res.offsets, p, 1)
read_build_number_last_match(res, p) == last_match(res.offsets, p, 1)

\* Results::read_build_number: Ok(value) of the find_map, or
\* Err("unable to read build number") when it gives None.
read_build_number(res, p) == find_map(res.offsets, p, 1)

\* A faulty variant of the build_number field: the lookup's error is returned by
\* dump_info_file (read_build_number(process)?) instead of defaulting.
build_number_propagating(r) ==
    IF r.ok THEN [err |-> "none", val |-> r.val]
    ELSE [err |-> "Err(unable to read build number)", val |-> 0]

\* self.read_build_number(process).unwrap_or(0): never an error.
build_number(r) ==
    [err |-> "none", val |-> IF r.ok THEN r.val ELSE 0]

\* serde_json::to_string_pretty of json!({"timestamp": .., "build_number": ..}):
\* the keys of a serde_json map in sorted order, two spaces of indentation.
InfoText(timestamp, bn) ==
    << "{",
       "  \"build_number\": " \o ToString(bn) \o ",",
       "  \"timestamp\": \"" \o timestamp \o "\"",
       "}" >>

(***************************************************************************)
(* dump_all                                                                *)
(***************************************************************************)
IndentSizes == {2, 4}

\* The record kept of one dump_all call: its arguments, every render-or-write
\* step it made (file, outcome, the text handed to dump_file), the calls it
\* made on the process, and what it returned.
NoLog(p) == [ indent |-> 0, proc |-> p, events |-> <<>>, resolves |-> <<>>,
              reads |-> <<>>, result |-> "none" ]
Event(file, kind, text) == [file |-> file, kind |-> kind, text |-> text]

\* A faulty variant of the loop's error handling: a failed step is skipped and the
\* loop goes on (best effort), the dump returning Ok at the end.
loop_after_best_effort(s, r) ==
    IF s < NumSteps THEN [pc |-> "loop", step |-> s + 1, result |-> "running"]
    ELSE [pc |-> "info", step |-> s, result |-> "running"]

\* A faulty variant of the loop's error handling: a failed step ends the loop
\* (break) instead of returning its error, and dump_info_file follows.
loop_after_breaking(s, r) ==
    IF r # "Ok" THEN [pc |-> "info", step |-> s, result |-> "running"]
    ELSE IF s < NumSteps THEN [pc |-> "loop", step |-> s + 1, result |-> "running"]
    ELSE [pc |-> "info", step |-> s, result |-> "running"]

\* Where dump_all stands after step s of the loop ended with r: the ? operator
\* returns an Err at once, an Ok goes on to the next pair and, after the last
\* pair, to dump_info_file.
loop_after(s, r) ==
    IF r # "Ok" THEN [pc |-> "idle", step |-> s, result |-> r]
    ELSE IF s < NumSteps THEN [pc |-> "loop", step |-> s + 1, result |-> "running"]
    ELSE [pc |-> "info", step |-> s, result |-> "running"]

\* The caller calls results.dump_all(process, out_dir, indent_size).
DumpAllCall ==
    /\ pc = "idle"
    /\ calls # <<>>
    /\ \E indent_size \in IndentSizes :
          /\ indent' = indent_size
          /\ cur' = [NoLog(proc) EXCEPT !.indent = indent_size, !.result = "running"]
    /\ prev' = cur
    /\ fs0' = fs
    /\ pc' = "loop"
    /\ step' = 1
    /\ calls' = Tail(calls)
    /\ UNCHANGED <<now, results, proc, fs, name, os, outs>>

\* One iteration of the nested loop of dump_all: item.generate(..)?, then
\* self.dump_file(..)?.  The encoder may fail; so may the write.
LoopStep ==
    /\ pc = "loop"
    /\ LET item == ItemOf(step)
           ext == ExtOf(step)
           file == FileName(item, ext)
           content == generate(results, item, indent, ext)
       IN  \E generated \in BOOLEAN :
              IF ~generated
              THEN LET after == loop_after(step, "Err(generate)")
                   IN  /\ cur' = [cur EXCEPT
                                    !.events = Append(@, Event(file, "generate failed", <<>>)),
                                    !.result = after.result]
                       /\ pc' = after.pc
                       /\ step' = after.step
                       /\ fs' = fs
              ELSE \E w \in dump_file(fs[file], content) :
                      LET after == loop_after(step, w.result)
                      IN  /\ fs' = [fs EXCEPT ![file] = w.file]
                          /\ cur' = [cur EXCEPT
                                       !.events = Append(@,
                                           Event(file,
                                                 IF w.written THEN "written"
                                                 ELSE "write failed",
                                                 content)),
                                       !.result = after.result]
                          /\ pc' = after.pc
                          /\ step' = after.step
    /\ UNCHANGED <<now, results, proc, fs0, indent, calls, prev, name, os, outs>>

\* self.dump_info_file(process, out_dir)?; Ok(()): the build-number lookup,
\* the serialisation of the record, the write of info.json, and the return
\* of dump_all.
InfoStep ==
    /\ pc = "info"
    /\ LET lookup == read_build_number(results, proc)
           bn == build_number(lookup)
           content == InfoText(to_rfc3339(results.timestamp), bn.val)
           seen == [cur EXCEPT !.resolves = @ \o lookup.resolves,
                               !.reads = @ \o lookup.reads]
       IN  IF bn.err # "none"
           THEN /\ cur' = [seen EXCEPT
                             !.events = Append(@, Event(InfoFile, "lookup failed", <<>>)),
                             !.result = bn.err]
                /\ fs' = fs
           ELSE \E serialized \in BOOLEAN :
                   IF ~serialized
                   THEN /\ cur' = [seen EXCEPT
                                     !.events = Append(@,
                                         Event(InfoFile, "serialize failed", <<>>)),
                                     !.result = "Err(serde)"]
                        /\ fs' = fs
                   ELSE \E w \in dump_file(fs[InfoFile], content) :
                           /\ fs' = [fs EXCEPT ![InfoFile] = w.file]
                           /\ cur' = [seen EXCEPT
                                        !.events = Append(@,
                                            Event(InfoFile,
                                                  IF w.written THEN "written"
                                                  ELSE "write failed",
                                                  content)),
                                        !.result = w.result]
    /\ pc' = "idle"
    /\ UNCHANGED <<now, results, proc, fs0, step, indent, calls, prev, name, os, outs>>

\* Time passes between two calls.  (dump_all reads no clock, so time that
\* passes during a call shows only in the calls after it.)
Tick ==
    /\ pc = "idle"
    /\ calls # <<>>
    /\ now < MaxClock
    /\ now' = now + 1
    /\ UNCHANGED <<results, proc, fs, fs0, pc, step, indent, calls, cur, prev,
                   name, os, outs>>

\* The target process exits between two calls: none of its modules resolves.
\* (dump_all uses the process in dump_info_file alone, so an exit during the
\* loop is an exit before the call as far as the call can tell.)
ProcessExit ==
    /\ pc = "idle"
    /\ calls # <<>>
    /\ proc # ExitedProcess
    /\ proc' = ExitedProcess
    /\ UNCHANGED <<now, results, fs, fs0, pc, step, indent, calls, cur, prev,
                   name, os, outs>>

(***************************************************************************)
(* Specifications                                                          *)
(***************************************************************************)
EmptyDir == [f \in Files |-> Absent]
\* A directory that holds some files of an older dump (those of the first two
\* collections, and info.json) and a file of the user's.
StaleFiles == {FileName(items[i], file_exts[j]) : i \in 1..2, j \in 1..Len(file_exts)}
                \cup {InfoFile, OtherFile}
StaleDir == [f \in Files |-> IF f \in StaleFiles THEN FileOf(<<"stale " \o f>>) ELSE Absent]

NoHelper == name = <<>> /\ os = "linux" /\ outs = <<>>

InitDumpWith(timestamps, offsetMaps, processes, dirs, runs) ==
    /\ now \in timestamps
    /\ \E o \in offsetMaps :
          results = NewResults(now, Buttons, <<"Source2Client002">>, o, <<>>)
    /\ proc \in processes
    /\ fs \in dirs
    /\ fs0 = fs
    /\ pc = "idle"
    /\ step = 1
    /\ indent = 0
    /\ calls = runs
    /\ cur = NoLog(proc)
    /\ prev = NoLog(proc)
    /\ NoHelper

\* The scenario of the orchestration: one snapshot dumped twice into a
\* directory that holds older files.
OneModuleMaps == {o \in OffsetMaps : Len(o) = 1}
Init ==
    InitDumpWith({0, 1},
                 {o \in OneModuleMaps : find_offset(o[1].offsets).some
                                        /\ Len(o[1].offsets) = 2
                                        /\ o[1].offsets[1].name # BuildNumberName},
                 {p \in Processes : \A m \in ModuleNames : p[m] = "mapped"},
                 {StaleDir}, <<"first", "second">>)

Next == DumpAllCall \/ LoopStep \/ InfoStep \/ Tick \/ ProcessExit

Spec == Init /\ [][Next]_vars

\* The scenario of the build-number lookup: every offset map and every
\* process of the bounds, one dump.
InitLookup ==
    InitDumpWith({0, 1}, OffsetMaps, Processes, {EmptyDir}, <<"only">>)

NextLookup == DumpAllCall \/ LoopStep \/ InfoStep

SpecLookup == InitLookup /\ [][NextLookup]_vars

\* The naming helpers: a helper called on a name, dump_all not running.
NoDump ==
    /\ now = 0
    /\ results = NewResults(0, Buttons, <<"Source2Client002">>, <<>>, <<>>)
    /\ proc = ExitedProcess
    /\ fs = EmptyDir
    /\ fs0 = EmptyDir
    /\ pc = "idle"
    /\ step = 1
    /\ indent = 0
    /\ calls = <<>>
    /\ cur = NoLog(ExitedProcess)
    /\ prev = NoLog(ExitedProcess)

\* sanitize_name(name), and sanitize_name of what it returned.
SanitizeCall ==
    /\ outs = <<>>
    /\ outs' = <<sanitize_name(name)>>
    /\ UNCHANGED <<dumpVars, name, os>>

SanitizeAgain ==
    /\ Len(outs) = 1
    /\ outs' = Append(outs, sanitize_name(outs[1]))
    /\ UNCHANGED <<dumpVars, name, os>>

InitSanitize == NoDump /\ name \in SanitizeInputs /\ os = "linux" /\ outs = <<>>
NextSanitize == SanitizeCall \/ SanitizeAgain
SpecSanitize == InitSanitize /\ [][NextSanitize]_vars

\* format_module_name(&name) in a build for the platform os.
FormatModuleNameCall ==
    /\ outs = <<>>
    /\ outs' = <<format_module_name(os, name)>>
    /\ UNCHANGED <<dumpVars, name, os>>

InitModuleName == NoDump /\ name \in ModuleNameInputs /\ os \in Platforms /\ outs = <<>>
NextModuleName == FormatModuleNameCall
SpecModuleName == InitModuleName /\ [][NextModuleName]_vars

(***************************************************************************)
(* Properties of the naming helpers                                        *)
(***************************************************************************)
AllAlnum(s) == \A i \in 1..Len(s) : is_alphanumeric(s[i])

\* C7: sanitize_name keeps every alphanumeric character in its position and
\* puts exactly one underscore in the place of every other character: the
\* result is as long as the input, a name of alphanumerics only is returned
\* unchanged, "Foo Bar!" gives "Foo_Bar_", and sanitising the result again
\* returns it unchanged.
SanitizeNameCorrect ==
    /\ Len(outs) >= 1 =>
          /\ Len(outs[1]) = Len(name)
          /\ \A i \in 1..Len(name) :
                outs[1][i] = IF is_alphanumeric(name[i]) THEN name[i] ELSE "_"
          /\ AllAlnum(name) => outs[1] = name
          /\ name = FooBar => outs[1] = <<"F", "o", "o", "_", "B", "a", "r", "_">>
    /\ Len(outs) = 2 => outs[2] = outs[1]

\* A name with characters to replace has been sanitised twice.
SanitizeNameWitness ==
    /\ Len(outs) = 2
    /\ name = FooBar
    /\ outs[1] # name

EndsWith(s, suffix) == \E k \in 0..Len(s) : SubSeq(s, 1, k) \o suffix = s
SuffixOf(platform) == IF platform = "linux" THEN SoSuffix ELSE DllSuffix

\* C8: on linux (".so") and windows (".dll"), format_module_name of a name
\* ending in the platform's suffix returns the name less that one trailing
\* suffix, and panics for a name not ending in it; on any other platform it
\* panics for every name.
FormatModuleNameCorrect ==
    outs # <<>> =>
        IF os \in {"linux", "windows"}
        THEN IF EndsWith(name, SuffixOf(os))
             THEN outs[1].kind = "ok" /\ outs[1].val \o SuffixOf(os) = name
             ELSE outs[1].kind = "panic: unwrap on None"
        ELSE outs[1].kind = "panic: unsupported os"

\* A name ending in the suffix twice has been stripped on linux.
FormatModuleNameWitness ==
    /\ outs # <<>>
    /\ os = "linux"
    /\ name = <<"c">> \o SoSuffix \o SoSuffix
    /\ outs[1].val = <<"c">> \o SoSuffix

(***************************************************************************)
(* Properties of dump_all                                                  *)
(***************************************************************************)
\* The file of the i-th step of the traversal: the 16 (collection, format)
\* pairs in declared order, then info.json.
StepFile(i) == IF i <= NumSteps THEN FileName(ItemOf(i), ExtOf(i)) ELSE InfoFile
LastStep == NumSteps + 1

Returned == pc = "idle" /\ cur.result \notin {"none", "running"}
HasText(e) == e.kind \in {"written", "write failed"}
ErrorOf(kind) ==
    CASE kind = "generate failed"  -> "Err(generate)"
      [] kind = "write failed"     -> "Err(io)"
      [] kind = "serialize failed" -> "Err(serde)"
      [] OTHER                     -> "Ok"

\* C1: a dump_all that returns Ok made 17 writes and every one succeeded;
\* out_dir then holds, with the text handed to dump_file, the 17 files
\* <c>.<e> (c a collection, e a format) and info.json, each written exactly
\* once, and no file of another name was touched.
DumpAllComplete ==
    (pc = "idle" /\ cur.result = "Ok") =>
        /\ Len(cur.events) = 17
        /\ \A i \in 1..Len(cur.events) : cur.events[i].kind = "written"
        /\ {cur.events[i].file : i \in 1..Len(cur.events)} =
              {c \o "." \o e : c \in {"buttons", "interfaces", "offsets", "schemas"},
                                e \in {"json", "cs", "hpp", "rs"}} \cup {"info.json"}
        /\ \A i, j \in 1..Len(cur.events) :
              cur.events[i].file = cur.events[j].file => i = j
        /\ \A i \in 1..Len(cur.events) :
              fs[cur.events[i].file] = FileOf(cur.events[i].text)
        /\ fs[OtherFile] = fs0[OtherFile]

\* A dump into a directory of older files has returned Ok.
DumpAllCompleteWitness ==
    /\ pc = "idle"
    /\ cur.result = "Ok"
    /\ fs0 = StaleDir
    /\ fs["info.json"].exists

\* C2: the steps of a dump_all run are made in the fixed traversal order;
\* the first step to fail is the last one made and dump_all returns its
\* error; the file of every step that succeeded holds the text generated
\* for it, also after the failure; the files of the steps not made are as
\* they were when dump_all was called.
DumpAllFailFast ==
    LET ev == cur.events
        n == Len(ev)
    IN  /\ \A i \in 1..n : ev[i].file = StepFile(i)
        /\ \A i \in 1..n :
              ev[i].kind # "written" =>
                  i = n /\ pc = "idle" /\ cur.result = ErrorOf(ev[i].kind)
        /\ \A i \in 1..n :
              ev[i].kind = "written" =>
                  /\ fs[ev[i].file] = FileOf(ev[i].text)
                  /\ i <= NumSteps =>
                        ev[i].text = generate(results, ItemOf(i), cur.indent, ExtOf(i))
        /\ \A i \in (n + 1)..LastStep : fs[StepFile(i)] = fs0[StepFile(i)]
        /\ (n = LastStep) => \A i \in 1..NumSteps : ev[i].kind = "written"

\* The write of the sixth file failed, over the files of an older dump.
DumpAllFailFastWitness ==
    /\ Returned
    /\ Len(cur.events) = 6
    /\ cur.events[6].kind = "write failed"
    /\ fs0 = StaleDir
    /\ fs[StepFile(5)] = FileOf(cur.events[5].text)

LineComment(ext) == "//"
SourceFormats == {"cs", "hpp", "rs"}

\* C4: the text generated for a collection in a source format (cs, hpp, rs)
\* begins with the attribution comment line, the comment line of the
\* snapshot's timestamp and a blank line, before the collection's content;
\* the text generated in the json format holds neither banner line.
BannerCorrect ==
    \A i \in 1..Len(cur.events) :
        (i <= NumSteps /\ HasText(cur.events[i])) =>
            LET text == cur.events[i].text
                ext == ExtOf(i)
                attribution == LineComment(ext)
                                 \o " Generated using https://github.com/a2x/cs2-dumper"
                stamp == LineComment(ext) \o " " \o DisplayUtc(results.timestamp)
            IN  IF ext \in SourceFormats
                THEN /\ Len(text) > 3
                     /\ text[1] = attribution
                     /\ text[2] = stamp
                     /\ text[3] = ""
                     /\ \A k \in 4..Len(text) : text[k] \notin {attribution, stamp, ""}
                ELSE \A k \in 1..Len(text) : text[k] \notin {attribution, stamp}

\* All four formats of a collection were written, at a time later than the
\* snapshot's.
BannerCorrectWitness ==
    /\ Len(cur.events) >= 4
    /\ \A i \in 1..4 : cur.events[i].kind = "written"
    /\ fs["buttons.rs"].exists
    /\ fs["buttons.json"].exists
    /\ now > results.timestamp

\* C6: after every step of dump_all, failed or not, the step's file either
\* holds the complete text generated for it or is as it was before the call.
FileAllOrNothing ==
    \A i \in 1..Len(cur.events) :
        LET f == cur.events[i].file
        IN  \/ HasText(cur.events[i]) /\ fs[f] = FileOf(cur.events[i].text)
            \/ fs[f] = fs0[f]

(***************************************************************************)
(* Properties of the build-number lookup                                   *)
(***************************************************************************)
HasBuildNumber(m) == \E k \in 1..Len(m.offsets) : m.offsets[k].name = "dwBuildNumber"
FirstBuildNumber(m) ==
    m.offsets[CHOOSE k \in 1..Len(m.offsets) :
                  /\ m.offsets[k].name = "dwBuildNumber"
                  /\ \A j \in 1..(k - 1) : m.offsets[j].name # "dwBuildNumber"].value
Resolves(p, m) == module_by_name(p, m.module).ok
AddressIn(p, m) == module_by_name(p, m.module).base + FirstBuildNumber(m)
Readable(p, m) ==
    HasBuildNumber(m) /\ Resolves(p, m) /\ process_read(p, AddressIn(p, m)).ok

InfoDone == pc = "idle" /\ Len(cur.events) = LastStep
InfoEvent == cur.events[LastStep]
InfoLines(bn) ==
    << "{",
       "  \"build_number\": " \o ToString(bn) \o ",",
       "  \"timestamp\": \"" \o to_rfc3339(results.timestamp) \o "\"",
       "}" >>

\* C5: what dump_info_file returns is decided by the serialisation and the
\* write alone, whatever the lookup met; and with no offset named
\* dwBuildNumber in any module, the info.json it writes holds build_number 0
\* and the snapshot's timestamp in RFC 3339.
LookupNeverFailsDump ==
    InfoDone =>
        /\ InfoEvent.kind \in {"written", "write failed", "serialize failed"}
        /\ cur.result = ErrorOf(InfoEvent.kind)
        /\ (InfoEvent.kind = "written"
              /\ \A i \in 1..Len(results.offsets) : ~HasBuildNumber(results.offsets[i]))
           => fs["info.json"] = FileOf(InfoLines(0))

\* info.json was written for a snapshot of two modules without the offset.
LookupNeverFailsDumpWitness ==
    /\ InfoDone
    /\ InfoEvent.kind = "written"
    /\ Len(results.offsets) = 2
    /\ \A i \in 1..Len(results.offsets) : ~HasBuildNumber(results.offsets[i])
    /\ results.timestamp = 1
    /\ fs["info.json"].exists

\* C9 as stated: the first module holding dwBuildNumber decides alone; when
\* it does not resolve or its read fails, build_number is 0.
BuildNumberFirstMatchOnly ==
    (InfoDone /\ HasText(InfoEvent)) =>
        LET offs == results.offsets
            holders == {i \in 1..Len(offs) : HasBuildNumber(offs[i])}
            first == CHOOSE i \in holders : \A j \in holders : i <= j
            expected == IF holders # {} /\ Readable(cur.proc, offs[first])
                        THEN process_read(cur.proc, AddressIn(cur.proc, offs[first])).val
                        ELSE 0
        IN  InfoEvent.text = InfoLines(expected)

\* C9 as amended: build_number is the 4-byte value at base + offset.value of
\* the first module, in iteration order, that holds dwBuildNumber, resolves
\* and can be read there (the offset being the module's first of that name);
\* it is 0 when there is no such module.
BuildNumberFirstReadable ==
    (InfoDone /\ HasText(InfoEvent)) =>
        LET offs == results.offsets
            good == {i \in 1..Len(offs) : Readable(cur.proc, offs[i])}
            first == CHOOSE i \in good : \A j \in good : i <= j
            expected == IF good # {}
                        THEN process_read(cur.proc, AddressIn(cur.proc, offs[first])).val
                        ELSE 0
        IN  InfoEvent.text = InfoLines(expected)

\* The first module holding the offset does not resolve, the second is read.
BuildNumberFirstReadableWitness ==
    /\ InfoDone
    /\ InfoEvent.kind = "written"
    /\ Len(results.offsets) = 2
    /\ HasBuildNumber(results.offsets[1])
    /\ ~Resolves(cur.proc, results.offsets[1])
    /\ Readable(cur.proc, results.offsets[2])
    /\ fs["info.json"] # FileOf(InfoLines(0))

\* C10 as stated: a run that reaches the metadata step makes exactly one
\* memory read, and none before that step.
ExactlyOneRead ==
    /\ Len(cur.events) < LastStep => cur.reads = <<>>
    /\ InfoDone => Len(cur.reads) = 1

\* C10 as amended: a run makes no memory read before the metadata step; in
\* that step it reads, in iteration order, one address in each module that
\* holds dwBuildNumber and resolves, up to and including the first read
\* that succeeds: no read at all without such a module, and none after a
\* read that succeeded.
ReadsOfLookup ==
    /\ Len(cur.events) < LastStep => cur.reads = <<>>
    /\ InfoDone =>
          LET offs == results.offsets
              good == {i \in 1..Len(offs) : Readable(cur.proc, offs[i])}
              Tried(i) == /\ HasBuildNumber(offs[i])
                          /\ Resolves(cur.proc, offs[i])
                          /\ \A j \in good : i <= j
              tried == SelectSeq([i \in 1..Len(offs) |-> i], Tried)
          IN  cur.reads = [k \in 1..Len(tried) |-> AddressIn(cur.proc, offs[tried[k]])]

\* The read in the first module failed and the second module was read.
ReadsOfLookupWitness ==
    /\ InfoDone
    /\ Len(cur.reads) = 2
    /\ process_read(cur.proc, cur.reads[2]).ok

=============================================================================
